---- MODULE Spec2Model ----
(***************************************************************************)
(* Streaming-chat state machine of the two chat components of the          *)
(* repository: StreamChat (src/components/StreamChat.tsx) and StreamAIChat *)
(* (src/unnamed/part_000, lines 1169-1841).                                *)
(*                                                                         *)
(* Modelling conventions                                                   *)
(*  - one component instance is modelled; which one is fixed by comp.      *)
(*  - React state (messages, isStreaming, error) and refs are variables.   *)
(*    A setState updater is applied where the handler calls it; the        *)
(*    [isStreaming] effect (cleanup, then body) runs at the end of the     *)
(*    action whose handler changed isStreaming.                            *)
(*  - text is a sequence of one-character strings.                         *)
(*  - a response stream is an arbitrary sequence of SSE records, one       *)
(*    record per read; the reader may fail or close at any point.          *)
(*    MaxEvents bounds the records dispatched over all streams.            *)
(*  - every handleSend invocation is a process indexed by its turn.        *)
(***************************************************************************)
EXTENDS Integers, Sequences, FiniteSets, TLC

\* ------------------------------------------------------------------ bounds
MaxTurns == 2
MaxEvents == 3
MaxPollers == 2

\* ------------------------------------------------------- program constants
maxChecks == 100
stallChecks == 5

NULL == 0
Components == {"StreamChat", "StreamAIChat"}
Turns == 1..MaxTurns

\* text values used as inputs
EmptyText == << >>
HintText == <<"h">>
UserText == <<"u">>
\* what the input box can hold when handleSend runs
Inputs == {<< >>, <<" ">>, <<"u">>, <<" ", "u", " ">>}
ChunkTexts == {<<"a">>, <<"b", "c">>}

\* error values held by the error state
NoError == "null"
ErrEvent == "data.error"
ErrMessage == "err.message"
ErrFallback == "fallback text"

\* SSE records: a payload that parses to a StreamMessage, or one that does not
Records ==
  [type : {"start"}, message : {HintText}]
    \cup [type : {"chunk"}, content : ChunkTexts]
    \cup [type : {"done"}]
    \cup [type : {"error"}]
    \cup [type : {"invalid"}]

NoRecord == [type |-> "none"]

VARIABLES
  comp,                 \* which component is mounted
  messages,             \* useState<Message[]>
  isStreaming,          \* useState(false)
  error,                \* useState<string | null>
  abortControllerRef,   \* NULL or the turn whose AbortController it holds
  streamingBufferRef,   \* pending characters
  streamingTimerRef,    \* TRUE iff an interval handle is registered
  liveTimers,           \* number of intervals set and not yet cleared
  currentMessageIdRef,  \* NULL or a message id
  hasReceivedChunkRef,  \* StreamChat only
  displayedLengthRef,   \* StreamAIChat only
  pollers,              \* scheduled waitForBuffer callbacks
  pc,                   \* position of each handleSend invocation
  turn,                 \* number of accepted submits
  nEvents,              \* records read so far on each stream
  received,             \* history: chunk contents dispatched on each stream
  shape,                \* history: shape of the records of each stream
  badSeen,              \* history: position of the first unparsable record of each stream
  finalized,            \* history: turns whose done handling has completed
  doneSnap,             \* history: the turn's message and buffer when done was handled
  cancelSnap,           \* history: the turn's message when cancel was first pressed
  clearedTurns,         \* history: the turn cleared by a cancel, an error record or a
                        \* catch, while only ticks and polls have fired since
  regenerateSends,      \* input texts of the scheduled handleSend calls of handleRegenerate
  lastOp,               \* history: the last operation
  sseText,              \* reader: the bytes the server writes on the response
  unread,               \* reader: the bytes not yet delivered by reader.read()
  decoderPending,       \* reader: TextDecoder holds the lead byte of a character
  buffer,               \* reader: the accumulation buffer of handleSend
  dispatched,           \* reader: payloads handed to JSON.parse and the switch
  readerDone,           \* reader: reader.read() has reported done
  attemptNumber,        \* /api/chat/stream: provider calls made by pRetry so far
  retryAfter,           \* /api/chat/stream: Retry-After of the last 429 failure
  waitTime,             \* /api/chat/stream: ms waited after the last 429 failure
  headersSent,          \* /api/chat/stream: res.headersSent
  errorWritten,         \* /api/chat/stream: the catch has written an error record
  writableEnded,        \* /api/chat/stream: res.end() was called
  written,              \* /api/chat/stream history: types of the records written to res
  pcRetry,              \* /api/chat/stream: position of the handler
  tasks,                \* /api/tasks: the rows of the tasks table
  request,              \* /api/tasks: the last request served
  response,             \* /api/tasks: the response to it
  deleted               \* /api/tasks history: ids of the rows the request removed

progVars == <<messages, isStreaming, error, abortControllerRef, streamingBufferRef,
              streamingTimerRef, liveTimers, currentMessageIdRef, hasReceivedChunkRef,
              displayedLengthRef, pollers>>
readerVars == <<sseText, unread, decoderPending, buffer, dispatched, readerDone>>
retryVars == <<attemptNumber, retryAfter, waitTime, headersSent, errorWritten,
               writableEnded, written, pcRetry>>
taskVars == <<tasks, request, response, deleted>>
apiVars == <<readerVars, retryVars, taskVars>>
chatVars == <<comp, messages, isStreaming, error, abortControllerRef, streamingBufferRef,
              streamingTimerRef, liveTimers, currentMessageIdRef, hasReceivedChunkRef,
              displayedLengthRef, pollers, pc, turn, nEvents, received, shape,
              badSeen, finalized, doneSnap, cancelSnap, clearedTurns, regenerateSends, lastOp>>
vars == <<apiVars, comp, messages, isStreaming, error, abortControllerRef, streamingBufferRef,
          streamingTimerRef, liveTimers, currentMessageIdRef, hasReceivedChunkRef,
          displayedLengthRef, pollers, pc, turn, nEvents, received, shape,
          badSeen, finalized, doneSnap, cancelSnap, clearedTurns, regenerateSends, lastOp>>

\* ----------------------------------------------------------------- helpers
UserId(t) == 2 * t - 1
AssistantId(t) == 2 * t

Cur ==
  [messages |-> messages, isStreaming |-> isStreaming, error |-> error,
   abortControllerRef |-> abortControllerRef,
   streamingBufferRef |-> streamingBufferRef,
   streamingTimerRef |-> streamingTimerRef,
   liveTimers |-> liveTimers,
   currentMessageIdRef |-> currentMessageIdRef,
   hasReceivedChunkRef |-> hasReceivedChunkRef,
   displayedLengthRef |-> displayedLengthRef,
   pollers |-> pollers]

LastIsAssistant(m) == Len(m) > 0 /\ m[Len(m)].role = "assistant"

\* setMessages(prev => { lastMsg = updated[updated.length-1];
\*                       if (lastMsg && lastMsg.role === 'assistant') ... })
SetLastContent(m, c) ==
  IF LastIsAssistant(m) THEN [m EXCEPT ![Len(m)].content = c] ELSE m

SetLastNotStreaming(m) ==
  IF LastIsAssistant(m) THEN [m EXCEPT ![Len(m)].isStreaming = FALSE] ELSE m

\* if (lastMsg && lastMsg.id === id && lastMsg.role === 'assistant')
\*    { lastMsg.content += remainingContent; lastMsg.isStreaming = false }
FlushIntoLast(m, id, text) ==
  IF LastIsAssistant(m) /\ m[Len(m)].id = id
  THEN [m EXCEPT ![Len(m)].content = @ \o text, ![Len(m)].isStreaming = FALSE]
  ELSE m

\* if (streamingTimerRef.current) { clearInterval(...); streamingTimerRef.current = null }
ClearTimer(s) ==
  IF s.streamingTimerRef
  THEN [s EXCEPT !.streamingTimerRef = FALSE, !.liveTimers = @ - 1] ELSE s

\* streamingTimerRef.current = setInterval(...): one more interval is alive and
\* the ref holds the new handle, whatever it held before
SetInterval(s) == [s EXCEPT !.streamingTimerRef = TRUE, !.liveTimers = @ + 1]

\* an "ensure timer running" that sets the interval without looking at the ref
StartTimerUnguarded(s) ==
  IF s.currentMessageIdRef # NULL THEN SetInterval(s) ELSE s

\* "ensure timer running": if (currentMessageIdRef.current && !streamingTimerRef.current) setInterval(...)
StartTimerIfIdle(s) ==
  IF s.currentMessageIdRef # NULL /\ ~s.streamingTimerRef
  THEN SetInterval(s) ELSE s

\* ---------------------------------------------------- the [isStreaming] effect
\* Runs when isStreaming differs from the value of the previous render:
\* first the previous effect's cleanup, then the effect body.
UseEffect(s) ==
  IF s.isStreaming = isStreaming THEN s
  ELSE LET c == ClearTimer(s) IN
       IF c.isStreaming /\ c.currentMessageIdRef # NULL /\ ~c.streamingTimerRef
       THEN SetInterval([c EXCEPT
                      !.streamingBufferRef = EmptyText,
                      !.displayedLengthRef = IF comp = "StreamAIChat" THEN 0 ELSE @])
       ELSE IF ~c.isStreaming /\ Len(c.streamingBufferRef) = 0
       THEN ClearTimer(c)
       ELSE c

\* the next program state is s followed by the effect
Commit(s) ==
  LET r == UseEffect(s) IN
  /\ messages' = r.messages
  /\ isStreaming' = r.isStreaming
  /\ error' = r.error
  /\ abortControllerRef' = r.abortControllerRef
  /\ streamingBufferRef' = r.streamingBufferRef
  /\ streamingTimerRef' = r.streamingTimerRef
  /\ liveTimers' = r.liveTimers
  /\ currentMessageIdRef' = r.currentMessageIdRef
  /\ hasReceivedChunkRef' = r.hasReceivedChunkRef
  /\ displayedLengthRef' = r.displayedLengthRef
  /\ pollers' = r.pollers

\* ------------------------------------------------------------ timer callback
\* The interval callback (all copies of the closure behave alike).
TimerTick(s) ==
  IF Len(s.streamingBufferRef) > 0 /\ s.currentMessageIdRef # NULL
  THEN LET char == Head(s.streamingBufferRef)
           rest == Tail(s.streamingBufferRef)
           m == s.messages
           n == Len(m)
           hit == LastIsAssistant(m) /\ m[n].id = s.currentMessageIdRef
           still == Len(rest) > 0 \/ s.currentMessageIdRef # NULL
       IN IF ~hit THEN [s EXCEPT !.streamingBufferRef = rest]
          ELSE IF comp = "StreamChat"
          THEN [s EXCEPT !.streamingBufferRef = rest,
                         !.messages = [m EXCEPT ![n].content = Append(@, char),
                                                ![n].isStreaming = still]]
          ELSE IF Len(m[n].content) = s.displayedLengthRef
          THEN [s EXCEPT !.streamingBufferRef = rest,
                         !.displayedLengthRef = @ + 1,
                         !.messages = [m EXCEPT ![n].content = Append(@, char),
                                                ![n].isStreaming = still]]
          ELSE [s EXCEPT !.streamingBufferRef = rest,
                         !.messages = [m EXCEPT ![n].isStreaming = still]]
  ELSE IF s.currentMessageIdRef = NULL /\ Len(s.streamingBufferRef) = 0
  THEN ClearTimer(s)
  ELSE s

\* ------------------------------------------------------- waitForBuffer (done)
\* a waitForBuffer closure: created by handleSend invocation t for its id-th record
Poller(kind, t, id, last) ==
  [kind |-> kind, t |-> t, id |-> id, checkCount |-> 0, lastBufferLength |-> last]

\* remaining content appended in one shot, turn closed, timer stopped
ForceFlush(s) ==
  ClearTimer([s EXCEPT
    !.streamingBufferRef = EmptyText,
    !.messages = FlushIntoLast(s.messages, s.currentMessageIdRef, s.streamingBufferRef),
    !.isStreaming = FALSE,
    !.currentMessageIdRef = NULL])

\* buffer drained: mark the last message complete
FinishStreamChat(s) ==
  ClearTimer([s EXCEPT
    !.messages = SetLastNotStreaming(s.messages),
    !.isStreaming = FALSE,
    !.currentMessageIdRef = NULL])

FinishLeftover(s) ==
  [s EXCEPT
    !.messages = SetLastNotStreaming(s.messages),
    !.isStreaming = FALSE,
    !.currentMessageIdRef = NULL]

FinishStreamAIChat(s) ==
  ClearTimer([s EXCEPT
    !.messages = SetLastNotStreaming(s.messages),
    !.isStreaming = FALSE,
    !.currentMessageIdRef = NULL,
    !.displayedLengthRef = 0])

\* one run of the waitForBuffer closure p of the StreamChat read loop;
\* s.pollers does not contain p
WaitForBufferMain(s, p) ==
  LET remaining == Len(s.streamingBufferRef)
      checkCount == p.checkCount + 1
  IN IF remaining > 0
     THEN IF remaining = p.lastBufferLength /\ checkCount > stallChecks
          THEN ForceFlush(s)
          ELSE IF checkCount >= maxChecks
          THEN ForceFlush(s)
          ELSE [s EXCEPT !.pollers = @ \cup
                  {[p EXCEPT !.checkCount = checkCount, !.lastBufferLength = remaining]}]
     ELSE FinishStreamChat(s)

\* the waitForBuffer closure of the StreamChat leftover-buffer path
WaitForBufferLeftover(s, p) ==
  IF Len(s.streamingBufferRef) > 0
  THEN [s EXCEPT !.pollers = @ \cup {p}]
  ELSE FinishLeftover(s)

\* the waitForBuffer closure of StreamAIChat
WaitForBufferAI(s, p) ==
  IF Len(s.streamingBufferRef) > 0
  THEN [s EXCEPT !.pollers = @ \cup {p}]
  ELSE FinishStreamAIChat(s)

WaitForBuffer(s, p) ==
  CASE p.kind = "main" -> WaitForBufferMain(s, p)
    [] p.kind = "leftover" -> WaitForBufferLeftover(s, p)
    [] OTHER -> WaitForBufferAI(s, p)

\* ------------------------------------------------------------ catch / finally
\* values a rejected fetch/read can carry
AbortError == "AbortError"
PlainError == "Error"
AbortReason == "reason string"

\* abort() rejects with a DOMException named AbortError; abort(reason) with
\* the reason, or with the AbortError where the runtime ignores the reason
AbortRejections ==
  IF comp = "StreamChat" THEN {AbortError} ELSE {AbortError, AbortReason}

\* err instanceof Error && err.name === 'AbortError'
IsAbortError(err) == err = AbortError

\* err instanceof Error ? err.message : fallback
ErrorText(err) == IF err \in {AbortError, PlainError} THEN ErrMessage ELSE ErrFallback

\* a catch that marks the turn failed but keeps the characters still queued
CatchKeepsBuffer(s, err) ==
  IF IsAbortError(err) THEN s
  ELSE [s EXCEPT
         !.error = ErrorText(err),
         !.isStreaming = FALSE,
         !.hasReceivedChunkRef = FALSE,
         !.messages = SetLastNotStreaming(s.messages)]

CatchStreamChat(s, err) ==
  IF IsAbortError(err) THEN s
  ELSE [s EXCEPT
         !.error = ErrorText(err),
         !.isStreaming = FALSE,
         !.streamingBufferRef = EmptyText,
         !.hasReceivedChunkRef = FALSE,
         !.messages = SetLastNotStreaming(s.messages)]

CatchStreamAIChat(s, err) ==
  IF IsAbortError(err)
  THEN ClearTimer([s EXCEPT
         !.isStreaming = FALSE,
         !.streamingBufferRef = EmptyText,
         !.displayedLengthRef = 0,
         !.messages = SetLastNotStreaming(s.messages),
         !.currentMessageIdRef = NULL])
  ELSE [s EXCEPT
         !.error = ErrorText(err),
         !.isStreaming = FALSE,
         !.streamingBufferRef = EmptyText,
         !.displayedLengthRef = 0,
         !.messages = SetLastNotStreaming(s.messages)]

Catch(s, err) ==
  IF comp = "StreamChat" THEN CatchStreamChat(s, err) ELSE CatchStreamAIChat(s, err)

\* finally { abortControllerRef.current = null }
Finally(s) == [s EXCEPT !.abortControllerRef = NULL]

\* ------------------------------------------------- record handlers, read loop
\* case 'error' (identical in the read loop and in the StreamChat leftover path)
OnError(s) ==
  ClearTimer([s EXCEPT
    !.error = ErrEvent,
    !.isStreaming = FALSE,
    !.streamingBufferRef = EmptyText,
    !.hasReceivedChunkRef = IF comp = "StreamChat" THEN FALSE ELSE @,
    !.displayedLengthRef = IF comp = "StreamAIChat" THEN 0 ELSE @,
    !.messages = SetLastNotStreaming(s.messages),
    !.currentMessageIdRef = NULL])

OnStartStreamChat(s, rec) ==
  [s EXCEPT
    !.hasReceivedChunkRef = FALSE,
    !.streamingBufferRef = EmptyText,
    !.messages = SetLastContent(s.messages, rec.message)]

OnStartStreamAIChat(s, rec) ==
  StartTimerIfIdle([s EXCEPT
    !.streamingBufferRef = EmptyText,
    !.displayedLengthRef = 0])

\* first chunk: drop the hint, restart the timer
FirstChunkStreamChat(s) ==
  StartTimerIfIdle(ClearTimer([s EXCEPT
    !.hasReceivedChunkRef = TRUE,
    !.streamingBufferRef = EmptyText,
    !.messages = SetLastContent(s.messages, EmptyText)]))

OnChunkStreamChat(s, rec) ==
  IF rec.content = EmptyText THEN s
  ELSE LET f == IF ~s.hasReceivedChunkRef THEN FirstChunkStreamChat(s) ELSE s
       IN [f EXCEPT !.streamingBufferRef = @ \o rec.content]

OnChunkStreamAIChat(s, rec) ==
  IF rec.content = EmptyText THEN s
  ELSE LET b == [s EXCEPT !.streamingBufferRef = @ \o rec.content]
       IN IF ~b.streamingTimerRef /\ b.currentMessageIdRef # NULL
          THEN SetInterval(b) ELSE b

OnDoneStreamChat(s, t, id) ==
  IF ~s.streamingTimerRef /\ Len(s.streamingBufferRef) > 0 /\ s.currentMessageIdRef # NULL
  THEN [s EXCEPT
         !.streamingBufferRef = EmptyText,
         !.messages = FlushIntoLast(s.messages, s.currentMessageIdRef, s.streamingBufferRef),
         !.isStreaming = FALSE,
         !.currentMessageIdRef = NULL]
  ELSE WaitForBufferMain(s, Poller("main", t, id, Len(s.streamingBufferRef)))

OnDoneStreamAIChat(s, t, id) == WaitForBufferAI(s, Poller("ai", t, id, 0))

\* the parse error leaves the record loop and reaches the outer catch
OnParseErrorRethrown(s) == Finally(Catch(s, PlainError))

\* catch (parseError) { console.error(...) }: the record is dropped
OnParseError(s) == s

\* the body of "for (const line of lines)" in the read loop
Dispatch(s, rec, t, id) ==
  CASE rec.type = "invalid" -> OnParseError(s)
    [] rec.type = "start" ->
         IF comp = "StreamChat" THEN OnStartStreamChat(s, rec) ELSE OnStartStreamAIChat(s, rec)
    [] rec.type = "chunk" ->
         IF comp = "StreamChat" THEN OnChunkStreamChat(s, rec) ELSE OnChunkStreamAIChat(s, rec)
    [] rec.type = "done" ->
         IF comp = "StreamChat" THEN OnDoneStreamChat(s, t, id) ELSE OnDoneStreamAIChat(s, t, id)
    [] rec.type = "error" -> OnError(s)
    [] OTHER -> s

\* ------------------------------------------ record handlers, leftover buffer
LeftoverChunkStreamChat(s, rec) ==
  IF rec.content = EmptyText THEN s
  ELSE LET f == IF ~s.hasReceivedChunkRef
                THEN [s EXCEPT !.hasReceivedChunkRef = TRUE,
                               !.messages = SetLastContent(s.messages, EmptyText)]
                ELSE s
       IN [f EXCEPT !.streamingBufferRef = @ \o rec.content]

LeftoverStreamChat(s, rec, t, id) ==
  CASE rec.type = "invalid" -> OnParseError(s)
    [] rec.type = "start" -> OnStartStreamChat(s, rec)
    [] rec.type = "chunk" -> LeftoverChunkStreamChat(s, rec)
    [] rec.type = "done" -> WaitForBufferLeftover(s, Poller("leftover", t, id, 0))
    [] rec.type = "error" -> OnError(s)
    [] OTHER -> s

LeftoverStreamAIChat(s, rec) ==
  CASE rec.type = "invalid" -> OnParseError(s)
    [] rec.type = "chunk" ->
         IF rec.content = EmptyText THEN s
         ELSE [s EXCEPT !.streamingBufferRef = @ \o rec.content]
    [] OTHER -> s

\* if (buffer.trim()) { ... }
DispatchLeftover(s, rec, t, id) ==
  IF comp = "StreamChat" THEN LeftoverStreamChat(s, rec, t, id) ELSE LeftoverStreamAIChat(s, rec)

\* ---------------------------------------------------------------- handleCancel
CancelStreamChat(s, rej) ==
  IF s.abortControllerRef = NULL THEN s
  ELSE LET h == ClearTimer([s EXCEPT
                  !.isStreaming = FALSE,
                  !.streamingBufferRef = EmptyText,
                  !.hasReceivedChunkRef = FALSE,
                  !.messages = SetLastNotStreaming(s.messages),
                  !.currentMessageIdRef = NULL])
       IN Finally(Catch(h, rej))

CancelStreamAIChat(s, rej) ==
  IF s.abortControllerRef = NULL THEN s
  ELSE LET h == ClearTimer([s EXCEPT
                  !.isStreaming = FALSE,
                  !.streamingBufferRef = EmptyText,
                  !.displayedLengthRef = 0,
                  !.messages = SetLastNotStreaming(s.messages),
                  !.currentMessageIdRef = NULL,
                  !.abortControllerRef = NULL])
       IN Finally(Catch(h, rej))

\* handleCancel followed by the rejection it causes in the aborted handleSend
HandleCancel(s, rej) ==
  IF comp = "StreamChat" THEN CancelStreamChat(s, rej) ELSE CancelStreamAIChat(s, rej)

\* ------------------------------------------------------------------ handleSend
\* String.prototype.trim on the input text
RECURSIVE TrimStart(_)
TrimStart(x) == IF x # << >> /\ Head(x) = " " THEN TrimStart(Tail(x)) ELSE x
RECURSIVE TrimEnd(_)
TrimEnd(x) ==
  IF x # << >> /\ x[Len(x)] = " " THEN TrimEnd(SubSeq(x, 1, Len(x) - 1)) ELSE x
Trim(x) == TrimEnd(TrimStart(x))

UserMessageOf(t, text) ==
  [id |-> UserId(t), role |-> "user", content |-> text, isStreaming |-> FALSE]
UserMessage(t) == UserMessageOf(t, UserText)
AssistantMessage(t) ==
  [id |-> AssistantId(t), role |-> "assistant", content |-> EmptyText, isStreaming |-> TRUE]

\* up to the first await
SendBegin(s, text, t) ==
  [s EXCEPT
    !.messages = @ \o <<UserMessageOf(t, Trim(text)), AssistantMessage(t)>>,
    !.isStreaming = TRUE,
    !.error = NoError,
    !.abortControllerRef = t]

\* handleSend entered without its guard
HandleSendUnguarded(s, text, t) == SendBegin(s, text, t)

\* if (!input.trim() || isStreaming) return
HandleSend(s, text, t) ==
  IF Trim(text) = EmptyText \/ s.isStreaming THEN s ELSE SendBegin(s, text, t)

\* ------------------------------------------------ handleRegenerate, handleClear
\* handleRegenerate(messageId), StreamChat; i is the position of the message
HandleRegenerate(s, i) ==
  IF i \in 2..Len(s.messages) /\ s.messages[i].role = "assistant"
       /\ s.messages[i - 1].role = "user"
  THEN [s EXCEPT !.messages = SubSeq(@, 1, i - 1)]
  ELSE s

\* setTimeout(() => handleSend(), 100): handleSend of the render of the click;
\* text and streaming are that render's input and isStreaming
ScheduledSends(text, streaming) ==
  IF Trim(text) = EmptyText \/ streaming THEN {} ELSE {text}

\* handleClear, StreamAIChat
HandleClear(s) == [s EXCEPT !.messages = << >>, !.error = NoError]

\* after a 2xx response with a body, up to the first read
SendResponse(s, t) ==
  StartTimerIfIdle([s EXCEPT
    !.currentMessageIdRef = AssistantId(t),
    !.streamingBufferRef = EmptyText,
    !.hasReceivedChunkRef = IF comp = "StreamChat" THEN FALSE ELSE @,
    !.displayedLengthRef = IF comp = "StreamAIChat" THEN 0 ELSE @])

\* ------------------------------------------------------------------- history
\* shape of a stream: "init" -start-> "open" -chunk-> "open" -done-> "done",
\* "init"/"open" -error-> "error", anything else "other"; invalid records
\* are not counted
NextShape(sh, rec) ==
  CASE rec.type \in {"invalid", "none"} -> sh
    [] sh = "init" /\ rec.type = "start" -> "open"
    [] sh = "open" /\ rec.type = "chunk" -> "open"
    [] sh = "open" /\ rec.type = "done" -> "done"
    [] sh \in {"init", "open"} /\ rec.type = "error" -> "error"
    [] OTHER -> "other"

NextReceived(r, rec) == IF rec.type = "chunk" THEN r \o rec.content ELSE r

\* records dispatched so far, over all streams
RECURSIVE SumUpTo(_, _)
SumUpTo(f, n) == IF n = 0 THEN 0 ELSE f[n] + SumUpTo(f, n - 1)
TotalEvents == SumUpTo(nEvents, MaxTurns)
NextId == TotalEvents + 1

HasMessage(m, id) == \E i \in 1..Len(m) : m[i].id = id
MessageById(m, id) == m[CHOOSE i \in 1..Len(m) : m[i].id = id]
ContentOf(m, id) == IF HasMessage(m, id) THEN MessageById(m, id).content ELSE EmptyText

NoSnap == [taken |-> FALSE, content |-> EmptyText, pending |-> EmptyText, stage |-> "idle"]
Snap(t, stage) ==
  [taken |-> TRUE, content |-> ContentOf(messages, AssistantId(t)),
   pending |-> streamingBufferRef, stage |-> stage]

\* r is the state a handler returns: no closure with this id is scheduled in it
Completed(r, id) == ~\E q \in r.pollers : q.id = id

\* --------------------------------------------------------------------- state
ChatInit ==
  /\ comp \in Components
  /\ messages = << >>
  /\ isStreaming = FALSE
  /\ error = NoError
  /\ abortControllerRef = NULL
  /\ streamingBufferRef = EmptyText
  /\ streamingTimerRef = FALSE
  /\ liveTimers = 0
  /\ currentMessageIdRef = NULL
  /\ hasReceivedChunkRef = FALSE
  /\ displayedLengthRef = 0
  /\ pollers = {}
  /\ pc = [t \in Turns |-> "idle"]
  /\ turn = 0
  /\ nEvents = [t \in Turns |-> 0]
  /\ received = [t \in Turns |-> EmptyText]
  /\ shape = [t \in Turns |-> "init"]
  /\ badSeen = [t \in Turns |-> 0]
  /\ finalized = {}
  /\ doneSnap = [t \in Turns |-> NoSnap]
  /\ cancelSnap = [t \in Turns |-> NoSnap]
  /\ clearedTurns = {}
  /\ regenerateSends = {}
  /\ lastOp = [op |-> "init", t |-> 0]

\* one chat component mounted, not used
ChatIdle == ChatInit /\ comp = "StreamChat"

\* the reader at rest, with nothing to read
ReaderIdle ==
  /\ sseText = << >>
  /\ unread = << >>
  /\ decoderPending = FALSE
  /\ buffer = << >>
  /\ dispatched = << >>
  /\ readerDone = TRUE

\* no request to /api/chat/stream is being served
RetryIdle ==
  /\ attemptNumber = 0
  /\ retryAfter = [present |-> FALSE, value |-> << >>]
  /\ waitTime = 0
  /\ headersSent = FALSE
  /\ errorWritten = FALSE
  /\ writableEnded = FALSE
  /\ written = << >>
  /\ pcRetry = "idle"

\* the tasks table is empty and no request was served
TaskInit ==
  /\ tasks = {}
  /\ request = [method |-> "none"]
  /\ response = [status |-> 0]
  /\ deleted = {}

Init == ChatInit /\ ReaderIdle /\ RetryIdle /\ TaskInit

\* ------------------------------------------------------------------- actions
\* handleSend runs (send button or Enter); a run that returns at its guard
\* changes nothing and is not a step
Submit ==
  /\ turn < MaxTurns
  /\ \E text \in Inputs :
       /\ HandleSend(Cur, text, turn + 1) # Cur
       /\ Commit(HandleSend(Cur, text, turn + 1))
  /\ turn' = turn + 1
  /\ pc' = [pc EXCEPT ![turn + 1] = "fetch"]
  /\ lastOp' = [op |-> "submit", t |-> turn + 1]
  /\ clearedTurns' = {}
  /\ UNCHANGED <<apiVars, comp, regenerateSends, nEvents, received, shape, badSeen, finalized, doneSnap, cancelSnap>>

\* fetch resolves with a 2xx response that has a body
FetchOk(t) ==
  /\ pc[t] = "fetch"
  /\ Commit(SendResponse(Cur, t))
  /\ pc' = [pc EXCEPT ![t] = "read"]
  /\ lastOp' = [op |-> "response", t |-> t]
  /\ clearedTurns' = {}
  /\ UNCHANGED <<apiVars, comp, regenerateSends, turn, nEvents, received, shape, badSeen, finalized, doneSnap, cancelSnap>>

\* fetch rejects, or the response is not ok, or it has no body
FetchFail(t) ==
  /\ pc[t] = "fetch"
  /\ Commit(Finally(Catch(Cur, PlainError)))
  /\ pc' = [pc EXCEPT ![t] = "failed"]
  /\ lastOp' = [op |-> "fetchfail", t |-> t]
  /\ clearedTurns' = {turn}
  /\ UNCHANGED <<apiVars, comp, regenerateSends, turn, nEvents, received, shape, badSeen, finalized, doneSnap, cancelSnap>>

\* history variables of a step that dispatches rec on stream t
Dispatched(t, rec, fin, stage) ==
  /\ nEvents' = [nEvents EXCEPT ![t] = IF rec.type = "none" THEN @ ELSE @ + 1]
  /\ received' = [received EXCEPT ![t] = NextReceived(@, rec)]
  /\ shape' = [shape EXCEPT ![t] = NextShape(@, rec)]
  /\ badSeen' = IF rec.type = "invalid" /\ badSeen[t] = 0
                THEN [badSeen EXCEPT ![t] = nEvents[t] + 1] ELSE badSeen
  /\ finalized' = IF fin THEN finalized \cup {t} ELSE finalized
  /\ doneSnap' = IF rec.type = "done" /\ ~doneSnap[t].taken
                 THEN [doneSnap EXCEPT ![t] = Snap(t, stage)] ELSE doneSnap

\* reader.read() delivers one complete record
Read(t, rec) ==
  /\ pc[t] = "read"
  /\ TotalEvents < MaxEvents
  /\ rec.type = "done" => Cardinality(pollers) < MaxPollers
  /\ LET r == Dispatch(Cur, rec, t, NextId) IN
       /\ Commit(r)
       /\ Dispatched(t, rec, rec.type = "done" /\ Completed(r, NextId), "read")
  /\ lastOp' = [op |-> rec.type, t |-> t]
  /\ clearedTurns' = IF rec.type = "error" THEN {turn} ELSE {}
  /\ UNCHANGED <<apiVars, comp, regenerateSends, pc, turn, cancelSnap>>

\* reader.read() reports done; rec is the unterminated record left in the
\* accumulation buffer, if any
StreamClose(t, rec) ==
  /\ pc[t] = "read"
  /\ rec.type # "none" => TotalEvents < MaxEvents
  /\ rec.type = "done" => Cardinality(pollers) < MaxPollers
  /\ LET r == IF rec.type = "none" THEN Cur ELSE DispatchLeftover(Cur, rec, t, NextId) IN
       /\ Commit(Finally(r))
       /\ Dispatched(t, rec, rec.type = "done" /\ comp = "StreamChat" /\ Completed(r, NextId),
                     "closed")
  /\ pc' = [pc EXCEPT ![t] = "closed"]
  /\ lastOp' = [op |-> "close " \o rec.type, t |-> t]
  /\ clearedTurns' = IF rec.type = "error" /\ comp = "StreamChat" THEN {turn} ELSE {}
  /\ UNCHANGED <<apiVars, comp, regenerateSends, turn, cancelSnap>>

\* reader.read() rejects with a network failure
ReadFail(t) ==
  /\ pc[t] = "read"
  /\ Commit(Finally(Catch(Cur, PlainError)))
  /\ pc' = [pc EXCEPT ![t] = "failed"]
  /\ lastOp' = [op |-> "readfail", t |-> t]
  /\ clearedTurns' = {turn}
  /\ UNCHANGED <<apiVars, comp, regenerateSends, turn, nEvents, received, shape, badSeen, finalized, doneSnap, cancelSnap>>

\* the 30 ms interval fires
Tick ==
  /\ liveTimers > 0
  /\ Commit(TimerTick(Cur))
  /\ lastOp' = [op |-> "tick", t |-> 0]
  /\ UNCHANGED <<apiVars, comp, clearedTurns, regenerateSends, pc, turn, nEvents, received, shape, badSeen, finalized, doneSnap, cancelSnap>>

\* a scheduled waitForBuffer callback fires
Poll(p) ==
  /\ p \in pollers
  /\ LET r == WaitForBuffer([Cur EXCEPT !.pollers = @ \ {p}], p) IN
       /\ Commit(r)
       /\ finalized' = IF Completed(r, p.id) THEN finalized \cup {p.t} ELSE finalized
  /\ lastOp' = [op |-> "poll", t |-> p.t]
  /\ UNCHANGED <<apiVars, comp, clearedTurns, regenerateSends, pc, turn, nEvents, received, shape, badSeen, doneSnap, cancelSnap>>

\* the user presses the cancel button (shown while isStreaming)
Cancel ==
  /\ isStreaming
  /\ \E rej \in AbortRejections : Commit(HandleCancel(Cur, rej))
  /\ pc' = IF abortControllerRef # NULL
           THEN [pc EXCEPT ![abortControllerRef] = "aborted"] ELSE pc
  /\ cancelSnap' = IF cancelSnap[turn].taken THEN cancelSnap
                   ELSE [cancelSnap EXCEPT ![turn] = Snap(turn, pc[turn])]
  /\ lastOp' = [op |-> "cancel", t |-> turn]
  /\ clearedTurns' = IF abortControllerRef # NULL THEN {turn} ELSE {}
  /\ UNCHANGED <<apiVars, comp, regenerateSends, turn, nEvents, received, shape, badSeen, finalized, doneSnap>>

\* the regenerate button of an assistant message with content (StreamChat);
\* text is what the input box holds
Regenerate(i, text) ==
  /\ comp = "StreamChat"
  /\ i \in 1..Len(messages)
  /\ messages[i].role = "assistant" /\ messages[i].content # EmptyText
  /\ ScheduledSends(text, isStreaming) # {} => turn < MaxTurns
  /\ Commit(HandleRegenerate(Cur, i))
  /\ regenerateSends' = regenerateSends \cup ScheduledSends(text, isStreaming)
  /\ lastOp' = [op |-> "regenerate", t |-> turn]
  /\ clearedTurns' = {}
  /\ UNCHANGED <<apiVars, comp, pc, turn, nEvents, received, shape, badSeen, finalized, doneSnap,
                 cancelSnap>>

\* the handleSend scheduled by handleRegenerate runs: its guard was passed
\* with the values of its own render
RegenerateSend(text) ==
  /\ text \in regenerateSends
  /\ turn < MaxTurns
  /\ Commit(SendBegin(Cur, text, turn + 1))
  /\ regenerateSends' = regenerateSends \ {text}
  /\ turn' = turn + 1
  /\ pc' = [pc EXCEPT ![turn + 1] = "fetch"]
  /\ lastOp' = [op |-> "submit", t |-> turn + 1]
  /\ clearedTurns' = {}
  /\ UNCHANGED <<apiVars, comp, nEvents, received, shape, badSeen, finalized, doneSnap, cancelSnap>>

\* the clear button (StreamAIChat; disabled while isStreaming)
Clear ==
  /\ comp = "StreamAIChat"
  /\ ~isStreaming
  /\ messages # << >> \/ error # NoError
  /\ Commit(HandleClear(Cur))
  /\ lastOp' = [op |-> "clear", t |-> turn]
  /\ clearedTurns' = {}
  /\ UNCHANGED <<apiVars, comp, regenerateSends, pc, turn, nEvents, received, shape, badSeen,
                 finalized, doneSnap, cancelSnap>>

Next ==
  \/ Submit
  \/ \E t \in Turns : FetchOk(t)
  \/ \E t \in Turns : FetchFail(t)
  \/ \E t \in Turns, rec \in Records : Read(t, rec)
  \/ \E t \in Turns, rec \in Records \cup {NoRecord} : StreamClose(t, rec)
  \/ \E t \in Turns : ReadFail(t)
  \/ Tick
  \/ \E p \in pollers : Poll(p)
  \/ Cancel
  \/ \E i \in 1..(2 * MaxTurns), text \in Inputs : Regenerate(i, text)
  \/ \E text \in Inputs : RegenerateSend(text)
  \/ Clear

Spec == Init /\ [][Next]_vars

\* the interval timer and the setTimeout polls both keep firing
FairSpec ==
  Spec /\ WF_vars(Tick) /\ WF_vars(\E p \in pollers : Poll(p))

\* the polls keep firing, the interval timer may be stalled
StallSpec ==
  Spec /\ WF_vars(\E p \in pollers : Poll(p))

\* ============================================================ the SSE reader
\* The record splitter of the read loop of handleSend, on its own: the bytes
\* of a response are delivered by successive reads of any sizes.
\* Bytes: "n" is the newline, "d" stands for the prefix "data: ", "x" is a
\* payload character, "L" "T" are the lead and trail byte of a two-byte
\* character, which decodes to "E"; "?" is U+FFFD.
MaxTextLen == 6
SseBytes == {"n", "d", "x", "L", "T"}
DataPrefix == <<"d">>
Separator == <<"n", "n">>

\* well-formed UTF-8: every lead byte is followed by a trail byte and every
\* trail byte follows a lead byte
ValidUtf8(b) ==
  /\ \A i \in 1..Len(b) : b[i] = "L" => (i < Len(b) /\ b[i + 1] = "T")
  /\ \A i \in 1..Len(b) : b[i] = "T" => (i > 1 /\ b[i - 1] = "L")

SseTexts ==
  {b \in UNION {[1..n -> SseBytes] : n \in 0..MaxTextLen} : ValidUtf8(b)}

\* decoder.decode(value, { stream: true }): the characters of value, given
\* whether a lead byte is held from the previous call
RECURSIVE Decode(_, _)
Decode(held, value) ==
  IF value = << >> THEN << >>
  ELSE LET b == Head(value) IN
       IF held
       THEN IF b = "T" THEN <<"E">> \o Decode(FALSE, Tail(value))
            ELSE <<"?">> \o Decode(FALSE, value)
       ELSE IF b = "L" THEN Decode(TRUE, Tail(value))
       ELSE IF b = "T" THEN <<"?">> \o Decode(FALSE, Tail(value))
       ELSE <<b>> \o Decode(FALSE, Tail(value))

\* whether the decoder holds a lead byte after value
RECURSIVE HeldAfter(_, _)
HeldAfter(held, value) ==
  IF value = << >> THEN held
  ELSE HeldAfter(~held /\ Head(value) = "L", Tail(value))

\* the position of the first separator in b, 0 if there is none
FirstSeparator(b) ==
  IF \E i \in 1..(Len(b) - 1) : SubSeq(b, i, i + 1) = Separator
  THEN CHOOSE i \in 1..(Len(b) - 1) :
         /\ SubSeq(b, i, i + 1) = Separator
         /\ \A j \in 1..(i - 1) : SubSeq(b, j, j + 1) # Separator
  ELSE 0

\* buffer.split('\n\n')
RECURSIVE Split(_)
Split(b) ==
  LET i == FirstSeparator(b) IN
  IF i = 0 THEN <<b>>
  ELSE <<SubSeq(b, 1, i - 1)>> \o Split(SubSeq(b, i + 2, Len(b)))

\* line.startsWith('data: ')
StartsWithData(line) ==
  Len(line) >= Len(DataPrefix) /\ SubSeq(line, 1, Len(DataPrefix)) = DataPrefix

\* line.slice(6)
RawData(line) == SubSeq(line, Len(DataPrefix) + 1, Len(line))

\* for (const line of lines) if (line.startsWith('data: ')) ... line.slice(6)
RECURSIVE Payloads(_)
Payloads(lines) ==
  IF lines = << >> THEN << >>
  ELSE (IF StartsWithData(Head(lines)) THEN <<RawData(Head(lines))>> ELSE << >>)
         \o Payloads(Tail(lines))

\* the accumulation buffer dropped after every read
PartialRecordDropped(lines) == << >>

\* buffer = lines.pop() || ''
PartialRecord(lines) == lines[Len(lines)]

\* the lines left after lines.pop()
CompleteRecords(lines) == SubSeq(lines, 1, Len(lines) - 1)

\* buffer.trim() is empty
IsBlank(b) == \A i \in 1..Len(b) : b[i] = "n"

\* if (buffer.trim()) { lines = buffer.split('\n\n'); for ... }
LeftoverPayloads(b) == IF IsBlank(b) THEN << >> ELSE Payloads(Split(b))

ReaderInit ==
  /\ sseText \in SseTexts
  /\ unread = sseText
  /\ decoderPending = FALSE
  /\ buffer = << >>
  /\ dispatched = << >>
  /\ readerDone = FALSE

\* reader.read() delivers the next k bytes; one pass of the while loop
ReaderRead(k) ==
  /\ ~readerDone
  /\ k \in 1..Len(unread)
  /\ LET value == SubSeq(unread, 1, k)
         lines == Split(buffer \o Decode(decoderPending, value))
     IN /\ unread' = SubSeq(unread, k + 1, Len(unread))
        /\ decoderPending' = HeldAfter(decoderPending, value)
        /\ buffer' = PartialRecord(lines)
        /\ dispatched' = dispatched \o Payloads(CompleteRecords(lines))
  /\ UNCHANGED <<sseText, readerDone>>

\* reader.read() reports done: the loop ends and the rest of the buffer is handled
ReaderClose ==
  /\ ~readerDone
  /\ unread = << >>
  /\ dispatched' = dispatched \o LeftoverPayloads(buffer)
  /\ readerDone' = TRUE
  /\ UNCHANGED <<sseText, unread, decoderPending, buffer>>

ReaderNext ==
  \/ \E k \in 1..MaxTextLen : ReaderRead(k) /\ UNCHANGED <<chatVars, retryVars, taskVars>>
  \/ ReaderClose /\ UNCHANGED <<chatVars, retryVars, taskVars>>

ReaderStart == ChatIdle /\ ReaderInit /\ RetryIdle /\ TaskInit

ReaderSpec == ReaderStart /\ [][ReaderNext]_vars

\* ================================================== POST /api/chat/stream retry
\* The pRetry wrapper of the handler of /api/chat/stream and the catch around
\* it. A provider call succeeds, or fails with status 429 or with another
\* error, before or after the start record was written.
retries == 5
defaultWait == 5000
NaN == -1

\* characters of a Retry-After value: digits, and "W" for any other character
HeaderChars == {"0", "2", "W"}
Digits == {"0", "2"}
DigitValue(c) == IF c = "2" THEN 2 ELSE 0

\* the header is missing, or holds a string
RetryAfterValues ==
  {[present |-> FALSE, value |-> << >>]}
    \cup [present : {TRUE}, value : UNION {[1..n -> HeaderChars] : n \in 0..2}]

\* the longest prefix of digits
RECURSIVE LeadingDigits(_)
LeadingDigits(v) ==
  IF v # << >> /\ Head(v) \in Digits THEN <<Head(v)>> \o LeadingDigits(Tail(v)) ELSE << >>

RECURSIVE DecimalValue(_)
DecimalValue(d) ==
  IF d = << >> THEN 0
  ELSE 10 * DecimalValue(SubSeq(d, 1, Len(d) - 1)) + DigitValue(d[Len(d)])

\* parseInt(retryAfter)
ParseInt(v) == IF LeadingDigits(v) = << >> THEN NaN ELSE DecimalValue(LeadingDigits(v))

\* the delay of setTimeout(resolve, ms): NaN counts as 0
TimeoutDelay(ms) == IF ms = NaN THEN 0 ELSE ms

\* the wait is always the default one
WaitTimeDefault(h) == defaultWait

\* if (retryAfter) wait parseInt(retryAfter) * 1000 else wait 5000
WaitTime(h) ==
  IF h.present /\ h.value # << >>
  THEN TimeoutDelay(IF ParseInt(h.value) = NaN THEN NaN ELSE ParseInt(h.value) * 1000)
  ELSE defaultWait

\* p-retry: a failed attempt is followed by another one while retries are left
RetriesLeft(n) == n <= retries

\* chunk records one provider stream yields at most
MaxChunks == 1

\* the records an attempt has written when it fails: none when create()
\* rejects, the start record and some chunks when the stream breaks
Partials == {<< >>} \cup {<<"start">> \o [i \in 1..k |-> "chunk"] : k \in 0..MaxChunks}

\* the catch of the handler: the error record is written only when no header
\* was sent yet; the response is ended
\* (sent, w: res.headersSent and the records written when the catch runs)
HandlerCatch(sent, w) ==
  /\ errorWritten' = ~sent
  /\ written' = (IF sent THEN w ELSE Append(w, "error"))
  /\ headersSent' = TRUE
  /\ writableEnded' = TRUE
  /\ pcRetry' = "ended"

\* what follows the failure of attempt n
AfterFailure(n, sent, w) ==
  IF RetriesLeft(n)
  THEN /\ pcRetry' = "call"
       /\ headersSent' = sent
       /\ written' = w
       /\ UNCHANGED <<errorWritten, writableEnded>>
  ELSE HandlerCatch(sent, w)

RetryInit ==
  /\ attemptNumber = 0
  /\ retryAfter = [present |-> FALSE, value |-> << >>]
  /\ waitTime = 0
  /\ headersSent = FALSE
  /\ errorWritten = FALSE
  /\ writableEnded = FALSE
  /\ written = << >>
  /\ pcRetry = "call"

\* the provider call succeeds: start and chunks (recs), then done are written,
\* res.end()
CallSucceeds(recs) ==
  /\ pcRetry = "call"
  /\ attemptNumber' = attemptNumber + 1
  /\ written' = written \o recs \o <<"done">>
  /\ headersSent' = TRUE
  /\ writableEnded' = TRUE
  /\ pcRetry' = "ended"
  /\ UNCHANGED <<retryAfter, waitTime, errorWritten>>

\* the provider call fails with status 429 carrying the header h, at create()
\* or while the stream is read (recs were written); the handler starts its wait
CallRateLimited(h, recs) ==
  /\ pcRetry = "call"
  /\ attemptNumber' = attemptNumber + 1
  /\ written' = written \o recs
  /\ headersSent' = (headersSent \/ recs # << >>)
  /\ retryAfter' = h
  /\ waitTime' = WaitTime(h)
  /\ pcRetry' = "wait"
  /\ UNCHANGED <<errorWritten, writableEnded>>

\* the wait is over: throw new Error('Rate limit exceeded (429), retrying...')
WaitOver ==
  /\ pcRetry = "wait"
  /\ AfterFailure(attemptNumber, headersSent, written)
  /\ UNCHANGED <<attemptNumber, retryAfter, waitTime>>

\* the provider call fails with another error after writing recs; the error is
\* rethrown at once
CallFails(recs) ==
  /\ pcRetry = "call"
  /\ attemptNumber' = attemptNumber + 1
  /\ AfterFailure(attemptNumber + 1, headersSent \/ recs # << >>, written \o recs)
  /\ UNCHANGED <<retryAfter, waitTime>>

RetryNext ==
  \/ \E recs \in Partials \ {<< >>} : CallSucceeds(recs) /\ UNCHANGED <<chatVars, readerVars, taskVars>>
  \/ \E h \in RetryAfterValues, recs \in Partials :
       CallRateLimited(h, recs) /\ UNCHANGED <<chatVars, readerVars, taskVars>>
  \/ WaitOver /\ UNCHANGED <<chatVars, readerVars, taskVars>>
  \/ \E recs \in Partials : CallFails(recs) /\ UNCHANGED <<chatVars, readerVars, taskVars>>

\* the provider answers every call and every timeout fires
RetryStart == ChatIdle /\ ReaderIdle /\ RetryInit /\ TaskInit

RetrySpec == RetryStart /\ [][RetryNext]_vars /\ WF_vars(RetryNext)

\* ================================================================== /api/tasks
\* The handlers of POST /api/tasks and of PATCH and DELETE /api/tasks/[id]
\* over the tasks table of the schema. Task ids are the UUIDs 1..MaxTasks; a
\* call of the database may fail (dbError).
MaxTasks == 3
TaskIds == 1..MaxTasks

\* JSON values of a request body; Undefined is a key that is not there
Undefined == [type |-> "undefined"]
Str(x) == [type |-> "string", v |-> x]
Num(x) == [type |-> "number", v |-> x]
Bool(x) == [type |-> "boolean", v |-> x]
\* a string that holds the UUID x
Uuid(x) == [type |-> "uuid", v |-> x]

Low == <<"l", "o", "w">>
Medium == <<"m", "e", "d", "i", "u", "m">>
High == <<"h", "i", "g", "h">>
Urgent == <<"u", "r", "g", "e", "n", "t">>
Priorities == {Low, Medium, High}

\* JavaScript truthiness
Truthy(x) ==
  CASE x.type = "undefined" -> FALSE
    [] x.type = "string" -> x.v # << >>
    [] x.type = "number" -> x.v # 0
    [] x.type = "boolean" -> x.v
    [] x.type = "uuid" -> TRUE
    [] OTHER -> FALSE

\* ['low', 'medium', 'high'].includes(x)
IsPriority(x) == x.type = "string" /\ x.v \in Priorities

Row(id, title, completed, priority, parent) ==
  [id |-> id, title |-> title, completed |-> completed, priority |-> priority,
   parent_id |-> parent]

Exists(rows, id) == \E r \in rows : r.id = id
RowOf(rows, id) == CHOOSE r \in rows : r.id = id

Respond(rows, status, success, data) ==
  [tasks |-> rows, response |-> [status |-> status, success |-> success, data |-> data]]

NoData == [id |-> NULL]

\* ---------------------------------------------------------- POST /api/tasks
\* body.priority && !['low', 'medium', 'high'].includes(body.priority)
PriorityRejected(p) == Truthy(p) /\ ~IsPriority(p)

\* !body.title || typeof body.title !== 'string' || body.title.trim().length === 0
TitleRejected(t) == ~Truthy(t) \/ t.type # "string" \/ Trim(t.v) = << >>

\* insert of one row: the foreign key of parent_id must point to a row
InsertFails(rows, row, dbError) ==
  dbError \/ (row.parent_id # NULL /\ ~Exists(rows, row.parent_id))

Post(rows, body, dbError, newId) ==
  IF TitleRejected(body.title) THEN Respond(rows, 400, FALSE, NoData)
  ELSE IF PriorityRejected(body.priority) THEN Respond(rows, 400, FALSE, NoData)
  ELSE LET taskData ==
             Row(newId, Trim(body.title.v), FALSE,
                 IF Truthy(body.priority) THEN body.priority.v ELSE Medium,
                 IF Truthy(body.parent_id) THEN body.parent_id.v ELSE NULL)
       IN IF InsertFails(rows, taskData, dbError)
          THEN Respond(rows, 500, FALSE, NoData)
          ELSE Respond(rows \cup {taskData}, 201, TRUE, taskData)

\* ----------------------------------------------------- PATCH /api/tasks/[id]
\* !body || Object.keys(body).length === 0
BodyEmpty(body) ==
  body.completed.type = "undefined" /\ body.title.type = "undefined"
    /\ body.priority.type = "undefined"

PatchRejected(body) ==
  \/ BodyEmpty(body)
  \/ body.completed.type \notin {"undefined", "boolean"}
  \/ body.title.type # "undefined" /\ (body.title.type # "string" \/ Trim(body.title.v) = << >>)
  \/ body.priority.type # "undefined" /\ ~IsPriority(body.priority)

\* the row after update(updateData)
Updated(r, body) ==
  [r EXCEPT
    !.completed = IF body.completed.type # "undefined" THEN body.completed.v ELSE @,
    !.title = IF body.title.type # "undefined" THEN Trim(body.title.v) ELSE @,
    !.priority = IF body.priority.type # "undefined" THEN body.priority.v ELSE @]

Patch(rows, id, body, dbError) ==
  IF PatchRejected(body) THEN Respond(rows, 400, FALSE, NoData)
  ELSE IF dbError THEN Respond(rows, 500, FALSE, NoData)
  ELSE IF ~Exists(rows, id) THEN Respond(rows, 404, FALSE, NoData)
  ELSE LET row == Updated(RowOf(rows, id), body)
       IN Respond((rows \ {RowOf(rows, id)}) \cup {row}, 200, TRUE, row)

\* ---------------------------------------------------- DELETE /api/tasks/[id]
\* the rows that reference id through parent_id, directly or not
RECURSIVE Descendants(_, _)
Descendants(rows, ids) ==
  LET more == {r.id : r \in {x \in rows : x.parent_id \in ids}} IN
  IF more \subseteq ids THEN ids ELSE Descendants(rows, ids \cup more)

\* delete of the row alone, as if parent_id had no ON DELETE CASCADE
DeleteRowOnly(rows, id) == {r \in rows : r.id # id}

\* delete().eq('id', id) under parent_id ... ON DELETE CASCADE
DeleteRow(rows, id) == {r \in rows : r.id \notin Descendants(rows, {id})}

Delete(rows, id, fetchError, dbError) ==
  IF fetchError \/ ~Exists(rows, id) THEN Respond(rows, 404, FALSE, NoData)
  ELSE IF dbError THEN Respond(rows, 500, FALSE, NoData)
  ELSE Respond(DeleteRow(rows, id), 200, TRUE, [id |-> id])

\* ------------------------------------------------------------------- requests
TitleInputs == {Undefined, Num(5), Str(<< >>), Str(<<" ">>), Str(<<" ", "t", " ">>)}
PriorityInputs == {Undefined, Str(High), Str(Urgent), Str(<< >>)}
ParentInputs == {Undefined} \cup {Uuid(i) : i \in TaskIds}
CompletedInputs == {Undefined, Bool(TRUE), Str(<<"y">>)}

GoodTitle == Str(<<" ", "t", " ">>)

EmptyBody ==
  [title |-> Undefined, priority |-> Undefined, parent_id |-> Undefined,
   completed |-> Undefined]

\* any title alone, and a good title with any priority and parent
PostBodies ==
  {[EmptyBody EXCEPT !.title = t] : t \in TitleInputs}
    \cup [title : {GoodTitle}, priority : PriorityInputs, parent_id : ParentInputs,
          completed : {Undefined}]

\* no key, or one key
PatchBodies ==
  {[EmptyBody EXCEPT !.completed = c] : c \in CompletedInputs}
    \cup {[EmptyBody EXCEPT !.title = t] : t \in {Str(<<" ">>), GoodTitle}}
    \cup {[EmptyBody EXCEPT !.priority = q] : q \in PriorityInputs}

Served(req, r) ==
  /\ tasks' = r.tasks
  /\ response' = r.response
  /\ request' = req
  /\ deleted' = {x.id : x \in tasks} \ {x.id : x \in r.tasks}

PostTask(body, dbError, newId) ==
  /\ ~Exists(tasks, newId)
  /\ Served([method |-> "POST", id |-> NULL, body |-> body, dbError |-> dbError,
             fetchError |-> FALSE],
            Post(tasks, body, dbError, newId))

PatchTask(id, body, dbError) ==
  Served([method |-> "PATCH", id |-> id, body |-> body, dbError |-> dbError,
          fetchError |-> FALSE],
         Patch(tasks, id, body, dbError))

DeleteTask(id, fetchError, dbError) ==
  Served([method |-> "DELETE", id |-> id, body |-> EmptyBody, dbError |-> dbError,
          fetchError |-> fetchError],
         Delete(tasks, id, fetchError, dbError))

TaskNext ==
  \/ \E body \in PostBodies, dbError \in BOOLEAN, newId \in TaskIds :
       PostTask(body, dbError, newId) /\ UNCHANGED <<chatVars, readerVars, retryVars>>
  \/ \E id \in TaskIds, body \in PatchBodies, dbError \in BOOLEAN :
       PatchTask(id, body, dbError) /\ UNCHANGED <<chatVars, readerVars, retryVars>>
  \/ \E id \in TaskIds, fetchError \in BOOLEAN, dbError \in BOOLEAN :
       DeleteTask(id, fetchError, dbError) /\ UNCHANGED <<chatVars, readerVars, retryVars>>

TaskStart == ChatIdle /\ ReaderIdle /\ RetryIdle /\ TaskInit

TaskSpec == TaskStart /\ [][TaskNext]_vars

\* ===================================================================== claims
Assistant(t) == MessageById(messages, AssistantId(t))
HasAssistant(t) == HasMessage(messages, AssistantId(t))

\* every stream so far has the shape the servers write:
\* start, chunk*, done or start?, chunk*, error
WellFormedStreams == \A t \in Turns : shape[t] # "other"

\* C1: once the handling of done has completed and the assistant message is
\* non-streaming, its content is the concatenation, in arrival order, of the
\* chunk contents received in the turn (empty when no chunk was received).
\* Read on streams of the shape start, chunk*, done.
C1_ContentEqualsChunks ==
  \A t \in Turns :
    (t \in finalized /\ shape[t] = "done" /\ HasAssistant(t) /\ ~Assistant(t).isStreaming)
      => Assistant(t).content = received[t]

\* the turn has left the flow start, chunk*, done by a cancel, a failure or
\* a later submit
Interrupted(t) ==
  \/ cancelSnap[t].taken
  \/ pc[t] \in {"failed", "aborted"}
  \/ shape[t] # "done"
  \/ turn # t

Ready(t) ==
  /\ ~isStreaming
  /\ HasAssistant(t) /\ ~Assistant(t).isStreaming
  /\ streamingBufferRef = EmptyText
  /\ Assistant(t).content = received[t]

\* C2: with the timer and the polls firing, a turn whose stream delivered
\* start, chunk*, done (done read by the read loop) reaches the ready state:
\* both isStreaming flags false, nothing pending, and the concatenated chunk
\* contents as message content.
C2_TurnReachesReady ==
  \A t \in Turns :
    (shape[t] = "done" /\ doneSnap[t].stage = "read" /\ turn = t)
      ~> (Ready(t) \/ Interrupted(t))

\* C3: after cancel was pressed while the turn's stream was being read (at
\* least one record had arrived), the turn's assistant message is
\* non-streaming and keeps the content it had at that moment, in every
\* later state.
C3_CancelFreezesMessage ==
  \A t \in Turns :
    (cancelSnap[t].taken /\ cancelSnap[t].stage = "read" /\ nEvents[t] > 0
       /\ WellFormedStreams /\ HasAssistant(t))
      => /\ ~Assistant(t).isStreaming
         /\ Assistant(t).content = cancelSnap[t].content

\* C4: a cancel never leaves the component with an error recorded, in
\* either component.
C4_CancelSetsNoError ==
  lastOp.op = "cancel" => error = NoError

\* C5: cancel pressed before the response has arrived leaves the transcript
\* ending with the user message and an empty non-streaming assistant message,
\* the component idle and no error.
C5_CancelBeforeResponse ==
  (lastOp.op = "cancel" /\ cancelSnap[lastOp.t].stage = "fetch" /\ WellFormedStreams)
    => /\ Len(messages) >= 2
       /\ messages[Len(messages) - 1] = UserMessage(lastOp.t)
       /\ messages[Len(messages)] =
            [AssistantMessage(lastOp.t) EXCEPT !.isStreaming = FALSE]
       /\ ~isStreaming
       /\ error = NoError

IsSuffix(x, y) == Len(x) <= Len(y) /\ SubSeq(y, Len(y) - Len(x) + 1, Len(y)) = x

\* a step in which a flag of turn t goes from streaming to non-streaming
StopsStreaming(t) ==
  /\ HasAssistant(t)
  /\ \/ isStreaming /\ ~isStreaming'
     \/ Assistant(t).isStreaming /\ ~Assistant(t)'.isStreaming

\* the steps that end a turn without completing it
EndsWithoutCompletion == {"cancel", "error", "close error", "readfail", "fetchfail"}

\* C6: after done, a step that completes the turn (one of its isStreaming
\* flags becomes false) ends in a state where the pending buffer is empty and
\* every character received in the chunks of the turn has been appended to
\* the message.
C6_CompletionOnlyWhenDrained ==
  [][\A t \in Turns :
       (doneSnap'[t].taken /\ turn = t /\ StopsStreaming(t)
          /\ lastOp'.op \notin EndsWithoutCompletion)
         => /\ streamingBufferRef' = EmptyText
            /\ IsSuffix(received'[t], Assistant(t)'.content)]_vars

\* C7: whenever the done record of a stream start, chunk*, done has been
\* handled, its finalization completes
\* (no waitForBuffer callback of the turn stays scheduled) even if the buffer
\* never drains, in every path that handles done and in both components.
C7_FinalizationCompletes ==
  \A t \in Turns :
    (shape[t] = "done" /\ \E p \in pollers : p.t = t) ~> (\A p \in pollers : p.t # t)

Flushed(t) ==
  /\ HasAssistant(t) /\ ~Assistant(t).isStreaming
  /\ Assistant(t).content = doneSnap[t].content \o doneSnap[t].pending

\* C8: when done is handled with characters pending and the timer does not
\* tick any more, all pending characters end up appended, in order, to a
\* non-streaming message.
C8_StalledTimerFlush ==
  \A t \in Turns :
    (lastOp = [op |-> "done", t |-> t] /\ doneSnap[t].pending # EmptyText /\ shape[t] = "done")
      ~> (Flushed(t) \/ lastOp.op \notin {"done", "poll"})

\* the program state held by a state record
ProgOf(s) ==
  <<s.messages, s.isStreaming, s.error, s.abortControllerRef, s.streamingBufferRef,
    s.streamingTimerRef, s.liveTimers, s.currentMessageIdRef, s.hasReceivedChunkRef,
    s.displayedLengthRef, s.pollers>>

\* C9: a record that does not parse changes nothing and leaves the read loop
\* running, so the records before and after it have the effect they have
\* without it and error is not set; as the unterminated last record of a
\* stream it has the effect of no leftover record at all.
C9_InvalidRecordSkipped ==
  [][/\ lastOp'.op = "invalid" => (UNCHANGED progVars /\ pc' = pc)
     /\ lastOp'.op = "close invalid" => progVars' = ProgOf(UseEffect(Finally(Cur)))]_vars

\* a stream chunk "a", unparsable record, chunk "bc" is being read and all of
\* "abc" is displayed, with no error
C9_Witness ==
  \E t \in Turns :
    /\ badSeen[t] = 2 /\ nEvents[t] = 3 /\ pc[t] = "read"
    /\ received[t] = <<"a", "b", "c">>
    /\ HasAssistant(t) /\ Assistant(t).content = received[t]
    /\ error = NoError

\* C10: cancel pressed after done was handled and the connection closed, with
\* the turn still streaming, stops the timer, discards the pending
\* characters, marks the assistant message non-streaming and returns the
\* component to idle.
C10_CancelAlwaysEffective ==
  (lastOp.op = "cancel" /\ cancelSnap[lastOp.t].stage = "closed"
     /\ shape[lastOp.t] = "done")
    => /\ ~isStreaming
       /\ ~streamingTimerRef
       /\ streamingBufferRef = EmptyText
       /\ HasAssistant(lastOp.t) /\ ~Assistant(lastOp.t).isStreaming

FailureOps == {"error", "close error", "readfail", "fetchfail"}

\* C12: after an error record, a non-2xx or body-less response, or a
\* non-abort failure of fetch/read in the current turn, the error message is
\* set, the timer is stopped, the pending buffer is empty and the turn's
\* assistant message is non-streaming.
C12_FailureEndsInError ==
  (lastOp.op \in FailureOps /\ lastOp.t = turn)
    => /\ error # NoError
       /\ ~isStreaming
       /\ ~streamingTimerRef
       /\ streamingBufferRef = EmptyText
       /\ HasAssistant(turn) /\ ~Assistant(turn).isStreaming

\* the connection of turn t has ended, by a read failure or by the stream
\* closing, with no done and no error record dispatched
EndedWithoutDone(t) ==
  /\ pc[t] \in {"closed", "failed"}
  /\ shape[t] \in {"init", "open"}
  /\ ~doneSnap[t].taken

\* C13: once the connection of the current turn has ended without a done or
\* error record, the component eventually leaves the streaming state: the
\* component flag and the assistant message's flag are both false.
C13_TurnTerminates ==
  \A t \in Turns :
    (EndedWithoutDone(t) /\ turn = t)
      ~> (\/ ~isStreaming /\ HasAssistant(t) /\ ~Assistant(t).isStreaming
          \/ turn # t)

\* the handleSend invocations of all earlier turns have returned
EarlierTurnsOver(t) == \A u \in Turns : u < t => pc[u] \in {"failed", "aborted", "closed"}

\* C14: a turn submitted after earlier turns ended (all streams having the
\* shape the servers write) runs as a normal turn:
\* while its stream is being read and nothing has ended it, it is streaming;
\* once its done record has been handled to completion its message holds all
\* its chunks in order; and a cancel pressed before its stream ended takes
\* effect.
C14_NextTurnUnaffected ==
  \A t \in Turns :
    (t > 1 /\ turn = t /\ EarlierTurnsOver(t) /\ WellFormedStreams /\ HasAssistant(t))
      => /\ (pc[t] = "read" /\ shape[t] \in {"init", "open"} /\ ~doneSnap[t].taken
               /\ ~cancelSnap[t].taken)
              => isStreaming /\ Assistant(t).isStreaming
         /\ (t \in finalized /\ shape[t] = "done" /\ received[t] # EmptyText
               /\ ~Assistant(t).isStreaming /\ ~cancelSnap[t].taken /\ pc[t] # "failed")
              => Assistant(t).content = received[t]
         /\ (lastOp = [op |-> "cancel", t |-> t] /\ cancelSnap[t].stage \in {"fetch", "read"})
              => ~isStreaming /\ ~Assistant(t).isStreaming

\* the turn in flight: the component is streaming, or its last message is
\* still marked as streaming
InFlight == isStreaming \/ (LastIsAssistant(messages) /\ messages[Len(messages)].isStreaming)

\* C15: the transcript is append-only. Except in a step of the clear action,
\* no message is removed or reordered, and no message changes other than the
\* assistant message of the turn in flight, which is the last message: user
\* messages and the assistant messages of finished turns keep their content
\* and flags.
C15_AppendOnly ==
  [][lastOp'.op # "clear" =>
       /\ Len(messages') >= Len(messages)
       /\ \A i \in 1..Len(messages) :
            (i < Len(messages) \/ messages[i].role = "user" \/ ~InFlight)
              => messages'[i] = messages[i]]_vars

IsPrefix(a, b) == Len(a) <= Len(b) /\ SubSeq(b, 1, Len(a)) = a

\* C20: at every instant of a turn, the content shown in the streaming
\* assistant message is a prefix of the concatenation of the chunk contents
\* received so far in the turn: nothing is shown before it has arrived in a
\* chunk, and nothing but chunk content is shown.
C20_ShownIsPrefixOfReceived ==
  \A t \in Turns :
    (turn = t /\ HasAssistant(t) /\ Assistant(t).isStreaming)
      => IsPrefix(Assistant(t).content, received[t])

\* what the reader dispatches and keeps when all of b arrives in one read
SingleRead(b) ==
  LET lines == Split(Decode(FALSE, b)) IN
  [dispatched |-> Payloads(CompleteRecords(lines)), buffer |-> PartialRecord(lines)]

\* C19: however the SSE text is cut into reads, the reader dispatches the
\* same payloads in the same order as when the text arrives in one read.
\* While bytes are outstanding what it has dispatched and what it keeps in
\* the accumulation buffer are those of a single read of the bytes delivered
\* so far (unless the last read ended inside a character); after the end of
\* the stream the payloads are those of a single read followed by the end of
\* the stream.
C19_CutsDoNotMatter ==
  LET n == Len(sseText) - Len(unread)
      whole == SingleRead(SubSeq(sseText, 1, n))
  IN /\ IsPrefix(dispatched, SingleRead(sseText).dispatched \o LeftoverPayloads(SingleRead(sseText).buffer))
     /\ (~readerDone /\ ~decoderPending) =>
          (dispatched = whole.dispatched /\ buffer = whole.buffer)
     /\ readerDone => dispatched = whole.dispatched \o LeftoverPayloads(whole.buffer)

\* a read has ended between the two newlines of the separator that ends the
\* first record: the record and the first newline wait in the buffer
C19_Witness ==
  /\ sseText = <<"d", "x", "n", "n", "L", "T">>
  /\ unread = <<"n", "L", "T">>
  /\ ~decoderPending
  /\ buffer = <<"d", "x", "n">>
  /\ dispatched = << >>
  /\ ~readerDone

\* a Retry-After value in the delay-seconds form: one or more digits
IsSeconds(v) == v # << >> /\ \A i \in 1..Len(v) : v[i] \in Digits

Answered(method) ==
  request'.method = method /\ ~request'.dbError /\ ~request'.fetchError

\* C17 as stated: PATCH and DELETE on an id that is not in the task store
\* return 404 with success=false and leave the store unchanged; DELETE on an
\* existing id removes exactly that task, leaves every other task unchanged
\* and returns 200. (Read with a database that answers.)
C17_UnknownIdIs404 ==
  [][/\ ((Answered("PATCH") \/ Answered("DELETE")) /\ ~Exists(tasks, request'.id))
          => (response'.status = 404 /\ ~response'.success /\ tasks' = tasks)
     /\ (Answered("DELETE") /\ Exists(tasks, request'.id))
          => (response'.status = 200 /\ tasks' = tasks \ {RowOf(tasks, request'.id)})]_vars

\* C17, amended: PATCH with a body that passes validation, and DELETE, on an
\* id that is not in the task store return 404 with success=false and leave
\* the store unchanged; DELETE on an existing id returns 200 and removes that
\* task together with the tasks below it (its subtasks, theirs, ...), and
\* leaves every other task unchanged.
C17_UnknownIdIs404Amended ==
  [][/\ (((Answered("PATCH") /\ ~PatchRejected(request'.body)) \/ Answered("DELETE"))
            /\ ~Exists(tasks, request'.id))
          => (response'.status = 404 /\ ~response'.success /\ tasks' = tasks)
     /\ (Answered("DELETE") /\ Exists(tasks, request'.id))
          => LET gone == {r.id : r \in tasks \ tasks'} IN
             /\ response'.status = 200 /\ response'.success
             /\ tasks' \subseteq tasks
             /\ request'.id \in gone
             /\ \A r \in tasks \ tasks' : r.id = request'.id \/ r.parent_id \in gone
             /\ \A r \in tasks' : r.parent_id \notin gone]_vars

\* DELETE of task 1 has removed it with its subtask 2 and the subtask 3 of
\* that one
C17_Witness ==
  /\ request.method = "DELETE" /\ request.id = 1
  /\ response.status = 200
  /\ deleted = {1, 2, 3}
  /\ tasks = {}

\* C18: POST /api/tasks with a missing, non-string or blank title, or with
\* a priority outside {low, medium, high}, returns 400 and creates nothing;
\* a valid request creates exactly one task with the trimmed title,
\* completed=false and priority defaulting to medium, and returns 201 with
\* that task. (Read with a database that answers and, for a subtask, a
\* parent that exists.)
C18_PostValidation ==
  [][(Answered("POST")
        /\ (request'.body.parent_id.type = "undefined"
              \/ Exists(tasks, request'.body.parent_id.v)))
       => LET title == request'.body.title
              priority == request'.body.priority
              badTitle == title.type # "string" \/ Trim(title.v) = << >>
              badPriority == priority.type # "undefined" /\ ~IsPriority(priority)
          IN IF badTitle \/ badPriority
             THEN response'.status = 400 /\ tasks' = tasks
             ELSE /\ response'.status = 201
                  /\ \E row \in tasks' \ tasks :
                       /\ tasks' = tasks \cup {row}
                       /\ ~Exists(tasks, row.id)
                       /\ row.title = Trim(title.v)
                       /\ row.completed = FALSE
                       /\ row.priority =
                            (IF priority.type = "undefined" THEN Medium ELSE priority.v)
                       /\ response'.data = row]_vars

\* the turn t is active: the component streams and the Buffer Controller
\* points at the turn's assistant message
Active(t) ==
  isStreaming /\ turn = t /\ currentMessageIdRef = AssistantId(t) /\ HasAssistant(t)

\* C21: in StreamAIChat, while a turn is active, displayedLengthRef equals
\* the length of the content of the turn's assistant message (which is
\* created empty), and it never decreases during the turn, whatever records
\* the stream delivers.
C21_DisplayedCountIsShownLength ==
  /\ [](comp = "StreamAIChat" =>
          \A t \in Turns : Active(t) => displayedLengthRef = Len(Assistant(t).content))
  /\ [][comp = "StreamAIChat" =>
          \A t \in Turns : (Active(t) /\ Active(t)') => displayedLengthRef' >= displayedLengthRef]_vars

\* C22: a timer tick that finds characters pending and an active message
\* removes exactly the first pending character and appends it to the end of
\* the active assistant message, changing no other message, so that pending
\* length plus shown length is unchanged (and n ticks after n characters were
\* enqueued show exactly these); a tick with nothing pending changes nothing
\* in the transcript.
C22_TickMovesOneCharacter ==
  [][lastOp'.op = "tick" =>
       /\ (streamingBufferRef # EmptyText /\ HasMessage(messages, currentMessageIdRef))
            => /\ streamingBufferRef' = Tail(streamingBufferRef)
               /\ Len(messages') = Len(messages)
               /\ \A i \in 1..Len(messages) :
                    IF messages[i].id = currentMessageIdRef
                    THEN messages'[i].content
                           = Append(messages[i].content, Head(streamingBufferRef))
                    ELSE messages'[i] = messages[i]
       /\ streamingBufferRef = EmptyText => messages' = messages]_vars

\* C23: a chunk record handled while currentMessageIdRef is unset (after an
\* error record earlier in the stream, after finalization, after a cancel)
\* is a no-op: the pending characters stay as they were and no message of
\* the transcript changes.
C23_LateChunkIsNoOp ==
  [][(lastOp'.op \in {"chunk", "close chunk"} /\ currentMessageIdRef = NULL)
       => (streamingBufferRef' = streamingBufferRef /\ messages' = messages)]_vars

\* a cancel that found its controller, an error record or a catch has
\* cleared turn t, and every callback that has fired since then was scheduled
\* before the clear (or by such a callback)
Cleared(t) == t \in clearedTurns

\* C24: once a cancel or an error has cleared a turn, a timer tick or a
\* waitForBuffer poll that fires afterwards appends nothing to the turn's
\* assistant message and does not set its isStreaming back to true.
C24_StaleCallbackCannotResurrect ==
  [][lastOp'.op \in {"tick", "poll"} =>
       \A t \in Turns :
         (Cleared(t) /\ HasAssistant(t))
           => /\ HasAssistant(t)'
              /\ Assistant(t)'.content = Assistant(t).content
              /\ Assistant(t)'.isStreaming => Assistant(t).isStreaming]_vars

\* turn t has been cleared with its assistant message on screen, and a
\* finalize poll scheduled before the clear has fired since
C24_Witness ==
  \E t \in Turns :
    /\ Cleared(t) /\ HasAssistant(t)
    /\ lastOp.op = "poll" /\ lastOp.t = t
    /\ ~Assistant(t).isStreaming

\* C25: whenever the component is not streaming, the buffer controller is
\* fully reset: nothing is pending, the displayed count is 0, no message is
\* active and no interval timer is running.
C25_IdleIsFullyReset ==
  ~isStreaming =>
    /\ streamingBufferRef = EmptyText
    /\ displayedLengthRef = 0
    /\ currentMessageIdRef = NULL
    /\ ~streamingTimerRef

\* C26: at most one character-reveal interval is alive at any time, and it is
\* the one whose handle streamingTimerRef holds (no orphan interval).
C26_AtMostOneTimer ==
  /\ liveTimers <= 1
  /\ liveTimers = (IF streamingTimerRef THEN 1 ELSE 0)

\* a first chunk of StreamChat has cleared the interval of the effect and set
\* its own, which is the only one alive
C26_Witness ==
  /\ comp = "StreamChat"
  /\ lastOp.op = "chunk"
  /\ hasReceivedChunkRef
  /\ streamingTimerRef
  /\ liveTimers = 1

\* the step is a continuation of an earlier handleSend running while a later
\* turn is the current one: one of its waitForBuffer polls, or its catch and
\* finally
StaleContinuation ==
  /\ lastOp'.op \in {"poll", "close none", "readfail", "fetchfail"}
  /\ lastOp'.t < turn

\* C27: a continuation of an earlier turn leaves the later turn alone: its
\* cancellation token, active message id, pending queue and timer are
\* unchanged, the component stays streaming, and the later turn's assistant
\* message is not marked non-streaming.
C27_EarlierTurnLeavesLaterAlone ==
  [][StaleContinuation =>
       /\ abortControllerRef' = abortControllerRef
       /\ currentMessageIdRef' = currentMessageIdRef
       /\ streamingBufferRef' = streamingBufferRef
       /\ streamingTimerRef' = streamingTimerRef
       /\ isStreaming => isStreaming'
       /\ (HasAssistant(turn) /\ Assistant(turn).isStreaming)
            => (HasAssistant(turn)' /\ Assistant(turn)'.isStreaming)]_vars

\* C30: at most one message has isStreaming = true; it is an assistant
\* message and the last of the transcript, and it is streaming only while the
\* component is streaming.
C30_OneStreamingMessage ==
  \A i \in 1..Len(messages) :
    messages[i].isStreaming =>
      /\ messages[i].role = "assistant"
      /\ i = Len(messages)
      /\ isStreaming

\* what a record handler leaves of the buffer, the timer, the transcript and
\* isStreaming once the handleSend that ran it has returned
EffectOf(s) ==
  LET r == UseEffect(Finally(s))
  IN <<r.streamingBufferRef, r.streamingTimerRef, r.messages, r.isStreaming>>

\* C29: a final record that the stream delivers without its blank line has
\* the effect on buffer, timer, transcript and isStreaming that the read loop
\* gives a record of the same type and content.
C29_LeftoverSameAsMainLoop ==
  [][\A t \in Turns : \A rec \in Records :
       (/\ rec.type \in {"start", "chunk", "done", "error"}
        /\ lastOp' = [op |-> "close " \o rec.type, t |-> t]
        /\ <<streamingBufferRef, streamingTimerRef, messages, isStreaming>>'
             = EffectOf(DispatchLeftover(Cur, rec, t, NextId)))
       => <<streamingBufferRef, streamingTimerRef, messages, isStreaming>>'
             = EffectOf(Dispatch(Cur, rec, t, NextId))]_vars

\* the i-th record written is the last one
IsLast(i) == i = Len(written)

\* C28: the records a streaming handler writes for a request are well formed:
\* a start record is the first record and there is only one, a done or error
\* record is the last record, done follows a start, and a request whose
\* response is ended has written its done or error record.
C28_RecordsWellFormed ==
  /\ \A i \in 1..Len(written) :
       /\ written[i] = "start" => i = 1
       /\ written[i] \in {"done", "error"} => IsLast(i)
       /\ written[i] \in {"chunk", "done"} => written[1] = "start"
  /\ writableEnded =>
       (written # << >> /\ written[Len(written)] \in {"done", "error"})

====
